---- MODULE Spec2Model ----
(***************************************************************************)
(* RLP and SCALE (fixed and compact) codecs of the bounded unsigned        *)
(* integer Uint<BITS, LIMBS>, src/support/fastrlp.rs and                   *)
(* src/support/scale.rs.                                                   *)
(*                                                                         *)
(* A Uint value is held as its little-endian byte sequence of exactly      *)
(* ceil(BITS/8) bytes (what as_le_bytes returns); every integer the codecs *)
(* compute with (u8, u16, u32, u64, u128, Uint<536, 9>) is a little-endian *)
(* byte sequence too, so that no width is lost to 32-bit integers.         *)
(***************************************************************************)
EXTENDS Integers, Sequences, FiniteSets, TLC

VARIABLES
  BITS,       \* the const generic BITS of the build under check
  value,      \* the Uint<BITS, LIMBS> handed to the encoders
  pc,         \* which operation ran last
  origin,     \* who wrote buf: "none", "encoder" or "peer"
  buf,        \* the bytes written by an encoder, then the decoder's input
  res,        \* the decoder's result
  hint,       \* the outcome of CompactRefUint::size_hint
  pPrefix,    \* PrefixInput.prefix: <<>> is None, <<b>> is Some(b)
  pInput,     \* PrefixInput.input: the unread bytes of the inner slice
  pOrigin,    \* the pending byte followed by the inner stream, at creation
  pDelivered, \* the bytes the successful reads put into their buffers
  pLast       \* the last call on the PrefixInput and what it saw

vars == <<BITS, value, pc, origin, buf, res, hint,
          pPrefix, pInput, pOrigin, pDelivered, pLast>>

codecVars == <<BITS, value, pc, origin, buf, res, hint>>
prefixVars == <<pPrefix, pInput, pOrigin, pDelivered, pLast>>

(***************************************************************************)
(* Bounds of the model.                                                    *)
(***************************************************************************)
\* the largest width checked
MaxBits == 544
\* widths up to this one are checked on every value
ExhaustiveBits == 8
\* how many superfluous zero bytes a peer's non-minimal encoding carries
MaxPad == 2
\* the longest inner stream under a PrefixInput
MaxStream == 3
\* the longest buffer handed to PrefixInput::read
MaxBuf == 3

COMPACT_BITS_LIMIT == 536

Widths ==
  {0, 1, 2, 6, 7, 8, 9, 14, 15, 16, 17, 24, 25, 30, 31, 32, 33, 40, 63, 64,
   65, 127, 128, 129, 136, 256, 384, 440, 448, 512, 528, 535, 536, MaxBits}

TopBytes == {1, 63, 64, 127, 128, 255}
FillBytes == {0, 255}
StreamBytes == {1, 7}

(***************************************************************************)
(* Byte-sequence arithmetic (little-endian, least significant byte first). *)
(***************************************************************************)
Max(S) == CHOOSE x \in S : \A y \in S : y <= x

Repeat(b, n) == [i \in 1..n |-> b]

Reverse(s) == [i \in 1..Len(s) |-> s[Len(s) + 1 - i]]

\* an integer cast: truncate to n bytes or zero-extend to n bytes
Resize(bs, n) == [i \in 1..n |-> IF i <= Len(bs) THEN bs[i] ELSE 0]

\* the n-byte little-endian form of a small natural
NatToLE(k, n) == [i \in 1..n |-> IF i <= 3 THEN (k \div (256 ^ (i - 1))) % 256 ELSE 0]

BitLen8(b) == IF b = 0 THEN 0 ELSE Max({k \in 1..8 : b >= 2 ^ (k - 1)})

TrailingOnes8(b) == Max({k \in 0..8 : b % (2 ^ k) = 2 ^ k - 1})

\* wrapping << 2 and >> 2 of a fixed-width integer
Shl2(bs) ==
  [i \in 1..Len(bs) |->
     ((bs[i] * 4) % 256) + (IF i > 1 THEN bs[i - 1] \div 64 ELSE 0)]

Shr2(bs) ==
  [i \in 1..Len(bs) |->
     (bs[i] \div 4) + (IF i < Len(bs) THEN (bs[i + 1] % 4) * 64 ELSE 0)]

\* >> by a whole number of bytes
ShrBytes(bs, k) ==
  [i \in 1..Len(bs) |-> IF i + k <= Len(bs) THEN bs[i + k] ELSE 0]

\* bs | m for an m below 4 and a bs whose low two bits are clear
OrLow(bs, m) == [bs EXCEPT ![1] = @ + m]

\* a > b as numbers
Gt(a, b) ==
  LET n == IF Len(a) > Len(b) THEN Len(a) ELSE Len(b)
      A == Resize(a, n)
      B == Resize(b, n)
  IN \E i \in 1..n : A[i] > B[i] /\ \A j \in (i + 1)..n : A[j] = B[j]

Ge(a, b) == ~Gt(b, a)

(***************************************************************************)
(* The Uint operations the codecs call.                                    *)
(***************************************************************************)
BYTES(bits) == (bits + 7) \div 8

nlimbs(bits) == (bits + 63) \div 64

byte_len(v) ==
  IF \A i \in 1..Len(v) : v[i] = 0 THEN 0
  ELSE Max({i \in 1..Len(v) : v[i] # 0})

bit_len(v) ==
  IF byte_len(v) = 0 THEN 0
  ELSE 8 * (byte_len(v) - 1) + BitLen8(v[byte_len(v)])

leading_zeros(v, bits) == bits - bit_len(v)

trailing_ones(v) ==
  LET full == IF \A i \in 1..Len(v) : v[i] = 255 THEN Len(v)
              ELSE Max({k \in 0..Len(v) : \A i \in 1..k : v[i] = 255})
  IN IF full = Len(v) THEN 8 * full
     ELSE 8 * full + TrailingOnes8(v[full + 1])

as_le_bytes(v) == v

as_le_bytes_trimmed(v) == SubSeq(v, 1, byte_len(v))

to_be_bytes_vec(v) == Reverse(v)

\* Uint::to::<uN>() for a value that fits (the callers match on bit_len first)
to_uint(v, n) == Resize(v, n)

Fits(bs, bits) == bit_len(bs) <= bits

\* try_from_le_slice / try_from: <<>> is None, <<v>> is Some(v)
try_from_le_slice(bs, bits) ==
  IF Fits(bs, bits) THEN <<Resize(bs, BYTES(bits))>> ELSE <<>>

try_from_be_slice(bs, bits) == try_from_le_slice(Reverse(bs), bits)

(***************************************************************************)
(* parity-scale-codec primitives the SCALE codec calls.                    *)
(***************************************************************************)
\* <&[u8] as Input>::read: all n bytes or an error that consumes nothing
SliceRead(input, n) ==
  IF n > Len(input)
  THEN [ok |-> FALSE, bytes |-> <<>>, rest |-> input]
  ELSE [ok |-> TRUE, bytes |-> SubSeq(input, 1, n),
        rest |-> SubSeq(input, n + 1, Len(input))]

\* Compact<u32>::encode of a vector length
CompactLen(n) ==
  IF n < 64 THEN <<4 * n>>
  ELSE IF n < 16384 THEN NatToLE(4 * n + 1, 2)
  ELSE OrLow(Shl2(NatToLE(n, 4)), 2)

(***************************************************************************)
(* SCALE fixed form.                                                       *)
(***************************************************************************)
\* Encode for Uint: the byte vector as_le_bytes(), length-prefixed
FixedEncode(v) == CompactLen(Len(as_le_bytes(v))) \o as_le_bytes(v)

FixedSizeHint(bits) == 4 + BYTES(bits)

\* size_of::<Uint<BITS, LIMBS>>(): LIMBS limbs of 8 bytes
MaxEncodedLen(bits) == 8 * nlimbs(bits)

(***************************************************************************)
(* SCALE compact form: encoder.                                            *)
(***************************************************************************)
\* the arms with exclusive upper ends: 0..6, 0..14, 0..30
CompactModeExclusive(bl) ==
  IF bl < 6 THEN 0 ELSE IF bl < 14 THEN 1 ELSE IF bl < 30 THEN 2 ELSE 3

\* the match on bit_len: which arm encodes the value
CompactMode(bl) ==
  IF bl <= 6 THEN 0 ELSE IF bl <= 14 THEN 1 ELSE IF bl <= 30 THEN 2 ELSE 3

\* the byte count taken from 3 instead of 4
Mode3PrefixFromThree(n) == 3 + (((n - 3) * 4) % 256)

\* 0b11 + ((bytes_needed - 4) << 2) as u8
Mode3Prefix(n) == 3 + (((n - 4) * 4) % 256)

CompactEncodeTo(v) ==
  CASE CompactMode(bit_len(v)) = 0 -> Shl2(to_uint(v, 1))
    [] CompactMode(bit_len(v)) = 1 -> OrLow(Shl2(to_uint(v, 2)), 1)
    [] CompactMode(bit_len(v)) = 2 -> OrLow(Shl2(to_uint(v, 4)), 2)
    [] OTHER -> <<Mode3Prefix(byte_len(v))>> \o as_le_bytes_trimmed(v)

\* CompactRefUint::size_hint. "wrapped" is 32 - leading_zeros / 8 having
\* underflowed in a build without overflow checks, n then read modulo 2^64;
\* a build with overflow checks panics there.
CompactSizeHint(v, bits) ==
  LET t == trailing_ones(v)
      lz8 == leading_zeros(v, bits) \div 8
  IN IF t <= 6 THEN {[kind |-> "ok", n |-> 1]}
     ELSE IF t <= 14 THEN {[kind |-> "ok", n |-> 2]}
     ELSE IF t <= 30 THEN {[kind |-> "ok", n |-> 4]}
     ELSE IF lz8 <= 32 THEN {[kind |-> "ok", n |-> (32 - lz8) + 1]}
     ELSE {[kind |-> "panic", n |-> 0],
           [kind |-> "wrapped", n |-> (32 - lz8) + 1]}

(***************************************************************************)
(* PrefixInput.                                                            *)
(***************************************************************************)
\* PrefixInput::read with a buffer of n bytes
PrefixRead(prefix, input, n) ==
  LET taken == prefix   \* self.prefix.take(): self.prefix is None from here
  IN IF taken # <<>> /\ n > 0
     THEN LET r == SliceRead(input, n - 1)
          IN [ok |-> r.ok,
              buffer |-> IF r.ok THEN <<taken[1]>> \o r.bytes ELSE <<>>,
              prefix |-> <<>>, input |-> r.rest]
     ELSE LET r == SliceRead(input, n)
          IN [ok |-> r.ok, buffer |-> r.bytes,
              prefix |-> <<>>, input |-> r.rest]

\* PrefixInput::remaining_len over a slice, whose remaining_len is Some(len)
PrefixRemainingLen(prefix, input) == Len(input) + Len(prefix)

(***************************************************************************)
(* SCALE compact form: decoder.                                            *)
(***************************************************************************)
OUT_OF_RANGE == "out of range Uint decoding"
TOO_LARGE == "value is larger than fits the Uint"
NOT_ENOUGH == "Not enough data to fill buffer"

NoRes == [ok |-> FALSE, err |-> "none", val |-> <<>>, rest |-> <<>>, branch |-> "none"]

Fail(e, rest, branch) ==
  [ok |-> FALSE, err |-> e, val |-> <<>>, rest |-> rest, branch |-> branch]

Done(v, rest, branch) ==
  [ok |-> TRUE, err |-> "", val |-> v, rest |-> rest, branch |-> branch]

\* x.try_into().map_err(|_| OUT_OF_RANGE)? of a primitive integer x
TryInto(x, bits, rest, branch) ==
  IF try_from_le_slice(x, bits) = <<>> THEN Fail(OUT_OF_RANGE, rest, branch)
  ELSE Done(try_from_le_slice(x, bits)[1], rest, branch)

\* (0..bytes).map(|_| input.read_byte()).rev().collect::<Result<Vec<_>, _>>():
\* the indices run from bytes - 1 down to 0, every step reads the next byte of
\* the input and pushes it, and the first failed read ends the collection
RECURSIVE ReadBytesRev(_, _, _)
ReadBytesRev(input, idx, acc) ==
  IF idx < 0 THEN [ok |-> TRUE, bytes |-> acc, rest |-> input]
  ELSE LET r == SliceRead(input, 1)
       IN IF ~r.ok THEN [ok |-> FALSE, bytes |-> acc, rest |-> r.rest]
          ELSE ReadBytesRev(r.rest, idx - 1, acc \o r.bytes)

\* vec![u64::MAX; limbs] with the top limb masked to bits % 64 bits, as the
\* bytes of the limbs (bits is a multiple of 8, so the mask falls on a byte)
NewLimbs(bytes) ==
  LET bits == bytes * 8
      limbs == (bits + 64 - 1) \div 64
  IN [i \in 1..(8 * limbs) |->
        IF i <= 8 * (limbs - 1) THEN 255
        ELSE IF bits % 64 = 0 THEN 255
        ELSE IF i - 8 * (limbs - 1) <= (bits % 64) \div 8 THEN 255
        ELSE 0]

\* Uint::<536, 9>::from_limbs_slice(&new_limbs) >> ((68 - bytes + 1) * 8)
GeneralThreshold(bytes) ==
  ShrBytes(Resize(NewLimbs(bytes), BYTES(COMPACT_BITS_LIMIT)), 68 - bytes + 1)

U32_MAX_SHR2 == <<255, 255, 255, 63>>
U64_MAX_SHR8 == <<255, 255, 255, 255, 255, 255, 255, 0>>
U128_MAX_SHR8 == Repeat(255, 15) \o <<0>>
MODE1_LO == <<63, 0>>
MODE1_HI == <<255, 63>>
MODE2_LO == <<255, 63, 0, 0>>

\* the 4, 8 and 16 arms of mode 3: uN::decode(input), then x > bound
DecodePrimitive(input, n, bound, bits, branch) ==
  LET r == SliceRead(input, n)
  IN IF ~r.ok THEN Fail(NOT_ENOUGH, r.rest, branch)
     ELSE IF Gt(r.bytes, bound) THEN TryInto(r.bytes, bits, r.rest, branch)
     ELSE Fail(OUT_OF_RANGE, r.rest, branch)

\* the arms of modes 1 and 2: uN::decode(&mut PrefixInput {..}) >> 2, then the
\* range check
DecodePrefixed(prefix, input, n, lo, hi, bits, branch) ==
  LET r == PrefixRead(<<prefix>>, input, n)
      x == Shr2(r.buffer)
  IN IF ~r.ok THEN Fail(NOT_ENOUGH, r.input, branch)
     ELSE IF Ge(x, lo) /\ Ge(hi, x) THEN TryInto(x, bits, r.input, branch)
     ELSE Fail(OUT_OF_RANGE, r.input, branch)

\* the last arm of mode 3
DecodeGeneral(input, bytes, bits) ==
  LET r == ReadBytesRev(input, bytes - 1, <<>>)
      x == try_from_le_slice(r.bytes, bits)
  IN IF ~r.ok THEN Fail(NOT_ENOUGH, r.rest, "general")
     ELSE IF x = <<>> THEN Fail(TOO_LARGE, r.rest, "general")
     ELSE IF Gt(Resize(x[1], BYTES(COMPACT_BITS_LIMIT)), GeneralThreshold(bytes))
     THEN Done(x[1], r.rest, "general")
     ELSE Fail(OUT_OF_RANGE, r.rest, "general")

\* Decode for CompactUint, after assert_compact_supported
CompactDecode(stream, bits) ==
  LET first == SliceRead(stream, 1)
      prefix == first.bytes[1]
      input == first.rest
      bytes == (prefix \div 4) + 4
  IN IF ~first.ok THEN Fail(NOT_ENOUGH, stream, "prefix")
     ELSE CASE prefix % 4 = 0 -> TryInto(<<prefix \div 4>>, bits, input, "mode0")
            [] prefix % 4 = 1 ->
                 DecodePrefixed(prefix, input, 2, MODE1_LO, MODE1_HI, bits, "mode1")
            [] prefix % 4 = 2 ->
                 DecodePrefixed(prefix, input, 4, MODE2_LO, U32_MAX_SHR2, bits, "mode2")
            [] OTHER ->
                 CASE bytes = 4 ->
                        DecodePrimitive(input, 4, U32_MAX_SHR2, bits, "four")
                   [] bytes = 8 ->
                        DecodePrimitive(input, 8, U64_MAX_SHR8, bits, "eight")
                   [] bytes = 16 ->
                        DecodePrimitive(input, 16, U128_MAX_SHR8, bits, "sixteen")
                   [] OTHER -> DecodeGeneral(input, bytes, bits)

(***************************************************************************)
(* RLP codec.                                                              *)
(***************************************************************************)
\* no byte stripped
trim_nothing(bytes) == bytes

trim_leading_zeros(bytes) ==
  LET zeros == IF \A i \in 1..Len(bytes) : bytes[i] = 0 THEN Len(bytes)
               ELSE (CHOOSE i \in 1..Len(bytes) :
                       bytes[i] # 0 /\ \A j \in 1..(i - 1) : bytes[j] = 0) - 1
  IN SubSeq(bytes, zeros + 1, Len(bytes))

\* usize::to_be_bytes of a length below 2^24
UsizeToBe(n) ==
  [i \in 1..8 |-> IF i <= 5 THEN 0 ELSE (n \div (256 ^ (8 - i))) % 256]

\* 0x80 + n as u8
RlpShortHeader(n) == 128 + n

\* 0xb8 in place of 0xb7
RlpLongHeaderFromB8(k) == 184 + k

\* 0xb7 + length_bytes.len() as u8
RlpLongHeader(k) == 183 + k

\* Encodable::encode
RlpEncode(v) ==
  LET bytes == trim_leading_zeros(to_be_bytes_vec(v))
      n == Len(bytes)
      length_bytes == trim_leading_zeros(UsizeToBe(n))
  IN IF n = 0 THEN <<128>>
     ELSE IF n = 1 /\ bytes[1] <= 127 THEN <<bytes[1]>>
     ELSE IF n <= 55 THEN <<RlpShortHeader(n)>> \o bytes
     ELSE <<RlpLongHeader(Len(length_bytes))>> \o length_bytes \o bytes

\* a big-endian length of at most 3 bytes
BeToNat(bs) ==
  LET le == Reverse(bs)
  IN (IF Len(le) >= 1 THEN le[1] ELSE 0)
     + (IF Len(le) >= 2 THEN le[2] * 256 ELSE 0)
     + (IF Len(le) >= 3 THEN le[3] * 65536 ELSE 0)

HeaderFail(e, rest) ==
  [ok |-> FALSE, err |-> e, list |-> FALSE, payload_length |-> 0, rest |-> rest]

\* the length of a long string or list: len_of_len big-endian bytes, no
\* leading zero, at least 56. A length of 4 bytes or more exceeds every
\* stream of the model.
LongHeader(b, base, rest, list) ==
  LET len_of_len == b - base
      lenb == SubSeq(rest, 1, len_of_len)
      after == SubSeq(rest, len_of_len + 1, Len(rest))
  IN IF Len(rest) < len_of_len THEN HeaderFail("InputTooShort", rest)
     ELSE IF lenb[1] = 0 THEN HeaderFail("LeadingZero", rest)
     ELSE IF len_of_len > 3 THEN HeaderFail("InputTooShort", after)
     ELSE IF BeToNat(lenb) < 56 THEN HeaderFail("NonCanonicalSize", after)
     ELSE IF Len(after) < BeToNat(lenb) THEN HeaderFail("InputTooShort", after)
     ELSE [ok |-> TRUE, err |-> "", list |-> list,
           payload_length |-> BeToNat(lenb), rest |-> after]

\* Header::decode
HeaderDecode(stream) ==
  LET b == stream[1]
      rest == Tail(stream)
      short(n, r, list) ==
        IF Len(r) < n THEN HeaderFail("InputTooShort", r)
        ELSE [ok |-> TRUE, err |-> "", list |-> list,
              payload_length |-> n, rest |-> r]
  IN IF stream = <<>> THEN HeaderFail("InputTooShort", stream)
     ELSE IF b < 128 THEN short(1, stream, FALSE)
     ELSE IF b < 184 THEN
       IF b - 128 = 1 /\ rest = <<>> THEN HeaderFail("InputTooShort", rest)
       ELSE IF b - 128 = 1 /\ rest[1] < 128
            THEN HeaderFail("NonCanonicalSingleByte", rest)
       ELSE short(b - 128, rest, FALSE)
     ELSE IF b < 192 THEN LongHeader(b, 183, rest, FALSE)
     ELSE IF b < 248 THEN short(b - 192, rest, TRUE)
     ELSE LongHeader(b, 247, rest, TRUE)

\* Decodable::decode
RlpDecode(stream, bits) ==
  LET header == HeaderDecode(stream)
      bytes == SubSeq(header.rest, 1, header.payload_length)
      rest == SubSeq(header.rest, header.payload_length + 1, Len(header.rest))
      x == try_from_be_slice(bytes, bits)
  IN IF ~header.ok THEN Fail(header.err, header.rest, "header")
     ELSE IF header.list THEN Fail("UnexpectedList", header.rest, "list")
     ELSE IF x = <<>> THEN Fail("Overflow", rest, "string")
     ELSE Done(x[1], rest, "string")

(***************************************************************************)
(* The inputs.                                                             *)
(***************************************************************************)
\* n significant bytes: the top one t, the ones below it all f
Pattern(n, t, f, bits) ==
  [i \in 1..BYTES(bits) |-> IF i < n THEN f ELSE IF i = n THEN t ELSE 0]

\* the values of test_rlp: 15, 1024 and 0x12345678
Examples == {<<15>>, <<0, 4>>, <<120, 86, 52, 18>>}

Values(bits) ==
  IF bits <= ExhaustiveBits
  THEN {NatToLE(k, BYTES(bits)) : k \in 0..(2 ^ bits - 1)}
  ELSE {v \in {Pattern(n, t, f, bits) :
                 n \in 0..BYTES(bits), t \in TopBytes, f \in FillBytes} :
          Fits(v, bits)}
       \cup {Resize(e, BYTES(bits)) : e \in {x \in Examples : Fits(x, bits)}}

\* what a peer that does not encode minimally sends for v: mode 1 or 2 for a
\* value that fits it, or mode 3 with pad bytes more than the value needs
PeerCompact(v, m, pad) ==
  LET e == IF byte_len(v) + pad < 4 THEN 4 ELSE byte_len(v) + pad
  IN CASE m = 1 -> OrLow(Shl2(Resize(v, 2)), 1)
       [] m = 2 -> OrLow(Shl2(Resize(v, 4)), 2)
       [] OTHER -> <<Mode3Prefix(e)>> \o Resize(v, e)

PeerCan(v, m, pad) ==
  CASE m = 1 -> bit_len(v) <= 14
    [] m = 2 -> bit_len(v) <= 30
    [] OTHER -> byte_len(v) + pad <= 67

Streams == UNION {[1..n -> StreamBytes] : n \in 0..MaxStream}

NoHint == [kind |-> "none", n |-> 0]
NoCall == [op |-> "none", n |-> 0, ok |-> TRUE, before |-> <<>>, len |-> 0]

(***************************************************************************)
(* The codecs as a state machine: one value, one operation after another.  *)
(***************************************************************************)
PrefixIdle ==
  /\ pPrefix = <<>>
  /\ pInput = <<>>
  /\ pOrigin = <<>>
  /\ pDelivered = <<>>
  /\ pLast = NoCall

Init ==
  /\ BITS \in Widths
  /\ value \in Values(BITS)
  /\ pc = "init"
  /\ origin = "none"
  /\ buf = <<>>
  /\ res = NoRes
  /\ hint = NoHint
  /\ PrefixIdle

\* CompactRefUint::encode_to; assert_compact_supported panics first
EncodeCompact ==
  /\ pc = "init"
  /\ IF BITS < COMPACT_BITS_LIMIT
     THEN /\ buf' = CompactEncodeTo(value)
          /\ origin' = "encoder"
          /\ pc' = "compact"
     ELSE /\ pc' = "panicked"
          /\ UNCHANGED <<buf, origin>>
  /\ UNCHANGED <<BITS, value, res, hint, prefixVars>>

\* the bytes of a peer arrive instead
PeerSends ==
  /\ pc = "init"
  /\ \E m \in 1..3, pad \in 0..MaxPad :
       /\ PeerCan(value, m, pad)
       /\ buf' = PeerCompact(value, m, pad)
  /\ origin' = "peer"
  /\ pc' = "received"
  /\ UNCHANGED <<BITS, value, res, hint, prefixVars>>

\* <CompactUint as Decode>::decode on buf
DecodeCompact ==
  /\ pc \in {"compact", "received"}
  /\ IF BITS < COMPACT_BITS_LIMIT
     THEN /\ res' = CompactDecode(buf, BITS)
          /\ pc' = "decoded"
     ELSE /\ pc' = "panicked"
          /\ UNCHANGED res
  /\ UNCHANGED <<BITS, value, origin, buf, hint, prefixVars>>

\* CompactRefUint::size_hint
SizeHint ==
  /\ pc = "init"
  /\ hint' \in CompactSizeHint(value, BITS)
  /\ pc' = "hinted"
  /\ UNCHANGED <<BITS, value, origin, buf, res, prefixVars>>

\* <Uint as Encode>::using_encoded
EncodeFixed ==
  /\ pc = "init"
  /\ buf' = FixedEncode(value)
  /\ origin' = "encoder"
  /\ pc' = "fixed"
  /\ UNCHANGED <<BITS, value, res, hint, prefixVars>>

\* <Uint as Encodable>::encode
EncodeRlp ==
  /\ pc = "init"
  /\ buf' = RlpEncode(value)
  /\ origin' = "encoder"
  /\ pc' = "rlp"
  /\ UNCHANGED <<BITS, value, res, hint, prefixVars>>

\* <Uint as Decodable>::decode on buf
DecodeRlp ==
  /\ pc = "rlp"
  /\ res' = RlpDecode(buf, BITS)
  /\ pc' = "rlpdecoded"
  /\ UNCHANGED <<BITS, value, origin, buf, hint, prefixVars>>

Next ==
  \/ EncodeCompact
  \/ PeerSends
  \/ DecodeCompact
  \/ SizeHint
  \/ EncodeFixed
  \/ EncodeRlp
  \/ DecodeRlp

Spec == Init /\ [][Next]_vars

(***************************************************************************)
(* A PrefixInput over a slice, read with buffers of any length.            *)
(***************************************************************************)
CodecIdle ==
  /\ BITS = 0
  /\ value = <<>>
  /\ pc = "idle"
  /\ origin = "none"
  /\ buf = <<>>
  /\ res = NoRes
  /\ hint = NoHint

PrefixInit ==
  /\ CodecIdle
  /\ \E p \in StreamBytes, s \in Streams :
       /\ pPrefix = <<p>>
       /\ pInput = s
       /\ pOrigin = <<p>> \o s
  /\ pDelivered = <<>>
  /\ pLast = NoCall

\* PrefixInput::read(buffer) with buffer.len() = n
PrefixInputRead ==
  /\ \E n \in 0..MaxBuf :
       LET r == PrefixRead(pPrefix, pInput, n)
       IN /\ pPrefix' = r.prefix
          /\ pInput' = r.input
          /\ pDelivered' = IF r.ok THEN pDelivered \o r.buffer ELSE pDelivered
          /\ pLast' = [op |-> "read", n |-> n, ok |-> r.ok,
                       before |-> pPrefix, len |-> 0]
  /\ UNCHANGED <<pOrigin, codecVars>>

\* PrefixInput::remaining_len()
PrefixInputRemainingLen ==
  /\ pLast' = [op |-> "remaining_len", n |-> 0, ok |-> TRUE,
               before |-> pPrefix, len |-> PrefixRemainingLen(pPrefix, pInput)]
  /\ UNCHANGED <<pPrefix, pInput, pOrigin, pDelivered, codecVars>>

PrefixNext ==
  \/ PrefixInputRead
  \/ PrefixInputRemainingLen

PrefixSpec == PrefixInit /\ [][PrefixNext]_vars

(***************************************************************************)
(* Properties.                                                             *)
(***************************************************************************)
\* the bytes of buf the decoder consumed
Consumed == SubSeq(buf, 1, Len(buf) - Len(res.rest))

\* C1: compact-decoding what encode_to wrote for a value of a width below 536
\* succeeds, returns the value and leaves no byte of the encoding unread.
C1_CompactRoundTrip ==
  (pc = "decoded" /\ origin = "encoder") =>
    (res.ok /\ res.val = value /\ res.rest = <<>> /\ Consumed = buf)

\* the round trip of a 17-byte value or longer, through the general arm
C1_GeneralRoundTripReached ==
  /\ pc = "decoded"
  /\ origin = "encoder"
  /\ res.branch = "general"
  /\ byte_len(value) > 16
  /\ res.ok

\* C2: whatever the compact decoder accepts, encode_to of the decoded value
\* writes the very bytes the decoder consumed.
C2_CompactCanonical ==
  (pc = "decoded" /\ res.ok) => CompactEncodeTo(res.val) = Consumed

\* C3: a 2-byte mode-1 input whose shifted value is at most 63, and a 4-byte
\* mode-2 input whose shifted value is at most 0x3fff, fail with the
\* out-of-range error.
C3_ModeBoundaryRejected ==
  (/\ pc = "decoded"
   /\ \/ res.branch = "mode1" /\ Len(buf) = 2 /\ ~Gt(Shr2(buf), <<63, 0>>)
      \/ res.branch = "mode2" /\ Len(buf) = 4 /\ ~Gt(Shr2(buf), <<255, 63, 0, 0>>))
  => (~res.ok /\ res.err = OUT_OF_RANGE)

\* C4: RLP-decoding what the RLP encoder wrote succeeds, returns the value and
\* leaves the cursor empty.
C4_RlpRoundTrip ==
  pc = "rlpdecoded" => (res.ok /\ res.val = value /\ res.rest = <<>>)

\* the round trip of a payload of more than 55 bytes
C4_LongStringRoundTripReached ==
  pc = "rlpdecoded" /\ byte_len(value) > 55 /\ res.ok

\* C5: the RLP encoder writes the reference string encoding of the value's
\* big-endian bytes without leading zeros: 80 for zero, the byte itself up to
\* 7f, 80+n and the payload up to 55 bytes, b7+k, the k length bytes and the
\* payload beyond; the payload never starts with a zero byte; and the four
\* test vectors come out as written.
C5_RlpMinimalForm ==
  LET n == byte_len(value)
      payload == [i \in 1..n |-> value[n + 1 - i]]
      k == IF n < 256 THEN 1 ELSE 2
      lenBytes == IF n < 256 THEN <<n>> ELSE <<n \div 256, n % 256>>
  IN pc = "rlp" =>
       /\ n > 0 => payload[1] # 0
       /\ n > 55 => lenBytes[1] # 0
       /\ buf = IF n = 0 THEN <<128>>
                ELSE IF n = 1 /\ value[1] <= 127 THEN <<value[1]>>
                ELSE IF n <= 55 THEN <<128 + n>> \o payload
                ELSE <<183 + k>> \o lenBytes \o payload
       /\ as_le_bytes_trimmed(value) = <<15>> => buf = <<15>>
       /\ as_le_bytes_trimmed(value) = <<0, 4>> => buf = <<130, 4, 0>>
       /\ as_le_bytes_trimmed(value) = <<120, 86, 52, 18>>
            => buf = <<132, 18, 52, 86, 120>>

\* a long string has been written
C5_LongStringWritten ==
  pc = "rlp" /\ byte_len(value) > 55 /\ buf[1] = 184

\* C6: size_hint returns, without failing, the number of bytes encode_to
\* writes.
C6_SizeHintMatchesEncode ==
  (pc = "hinted" /\ BITS < COMPACT_BITS_LIMIT) =>
    (hint.kind = "ok" /\ hint.n = Len(CompactEncodeTo(value)))

C8_GeneralArmMinimal ==
  (pc = "decoded" /\ res.branch = "general" /\ res.ok) =>
    (/\ byte_len(res.val) = Len(Consumed) - 1
     /\ Consumed[Len(Consumed)] # 0)

IsPrefix(a, b) == Len(a) <= Len(b) /\ a = SubSeq(b, 1, Len(a))

\* C9: the bytes delivered are a prefix of the pending byte followed by the
\* inner stream; a read into an empty buffer leaves the byte pending; a read
\* clears it only when it wrote it into a non-empty buffer; and remaining_len
\* counts it for as long as it is not delivered.
C9_PrefixInputKeepsPendingByte ==
  /\ IsPrefix(pDelivered, pOrigin)
  /\ (pLast.op = "read" /\ pLast.n = 0) => pPrefix = pLast.before
  /\ (pLast.op = "read" /\ pLast.before # <<>> /\ pPrefix = <<>>) =>
       (pLast.n > 0 /\ pLast.ok /\ pDelivered # <<>>)
  /\ pLast.op = "remaining_len" =>
       pLast.len = Len(pInput) + (IF pDelivered = <<>> THEN 1 ELSE 0)

\* C10: the fixed encoding is no longer than max_encoded_len() and no longer
\* than size_hint().
C10_MaxEncodedLenBounds ==
  pc = "fixed" =>
    (/\ Len(buf) <= MaxEncodedLen(BITS)
     /\ Len(buf) <= FixedSizeHint(BITS))

====
